---- MODULE Spec2Model ----
(***************************************************************************)
(* git-air: automatic commit / push / pull of the Git repositories found   *)
(* under a directory.  Three programs of the repository are modelled:      *)
(*                                                                         *)
(*   Spec        the multi-repository orchestrator (multi_repo_service.go, *)
(*               scanner.go) with the worker goroutines it starts;         *)
(*   WorkerSpec  one GitAirService worker (the Go part of                  *)
(*               git-air-daemon.sh) on its GitRepository (git.go);         *)
(*   MainSpec    the single-loop program (main.go).                        *)
(*                                                                         *)
(* ScanSpec and RegistrySpec are the orchestrator again, from other        *)
(* initial states (a tree with excluded names; a start in a subdirectory   *)
(* with repositories being deleted), and WatchSpec is the worker again, in *)
(* a repository with subdirectories.                                       *)
(*                                                                         *)
(* Paths are sequences of directory names; <<>> is the top of the tree,    *)
(* which is the directory the process is started in (the scan root ".")    *)
(* except in RegistrySpec.                                                 *)
(***************************************************************************)
EXTENDS Integers, Sequences, FiniteSets, TLC

VARIABLES
    \* ---- file system and process-wide state
    dirs,           \* the directories that exist
    gitDirs,        \* directories holding a .git directory
    modDirs,        \* directories holding a .gitmodules file
    created,        \* repositories created after the service started
    unreadable,     \* directories whose entries cannot be read
    listFails,      \* repositories in which git remote -v fails
    cwd,            \* the process working directory (one per process)
    \* ---- MultiRepoService
    opc,            \* position of MultiRepoService.Start
    repositories,   \* mrs.repositories
    idx,            \* loop index over repositories
    services,       \* keys of mrs.services
    started,        \* per key: worker goroutines started so far
    wk,             \* per key: the worker goroutine of the registered service
    ctxDone,        \* the context is cancelled
    scans,          \* discoverRepositories calls so far
    mapAccess,      \* accesses to mrs.services of the latest step of the
                    \* service, each with the lock held at it
    \* ---- one GitAirService and its GitRepository
    cfg,            \* Config: AutoCommit, AutoPush, AutoPull
    tpc,            \* per goroutine of the service: its position
    events,         \* watcher.Events: queued events, each with the directory
                    \* of the file and whether its name matches a pattern
    spawned,        \* goroutines handleFileEvent has started
    tree,           \* working tree and index of the repository
    remotes,        \* configured remotes
    ahead,          \* remotes whose branch has commits the local one lacks
    pushFailed,     \* remotes whose latest push failed
    obs,            \* the goroutine whose sequence is recorded, or NoThread
    cyc,            \* the record of the sequence of goroutine obs
    edits,          \* file edits so far
    \* ---- the single-loop program (main.go)
    mpc,            \* position of main
    mrepos,         \* repos: the paths findGitRepos returned
    mi,             \* loop index over repos
    mtree,          \* per directory: state of the working tree of its repository
    mremotes,       \* what git remote prints in a repository, in its order
    mcycle,         \* record of the latest processRepo or pullUpdates call
    medits          \* file edits so far

fsVars   == <<dirs, gitDirs, modDirs, created, unreadable, listFails, cwd>>
orchVars == <<opc, repositories, idx, services, started, wk, ctxDone, scans,
             mapAccess>>
workerVars == <<cfg, tpc, events, spawned, tree, remotes, ahead,
                pushFailed, obs, cyc, edits>>
mainVars == <<mpc, mrepos, mi, mtree, mremotes, mcycle, medits>>
vars     == <<fsVars, orchVars, workerVars, mainVars>>

(***************************************************************************)
(* Bounds of the model.                                                    *)
(***************************************************************************)
MaxScans  == 2      \* periodic rescans explored
MaxStarts == 2      \* cap of the per-key goroutine counter
MaxEvents == 2      \* file events delivered to the watcher
MaxEdits  == 2      \* file edits
MaxBreaks == 1      \* repositories whose remote listing starts to fail
MaxRemovals == 1    \* repositories deleted while the service runs

(***************************************************************************)
(* The directory tree: directories are drawn from AllDirs.                 *)
(***************************************************************************)
Names == <<"a", "b", "build", "build-tools">>   \* in the lexical order filepath.Walk uses
Root  == <<>>
AllDirs  == {<<>>, <<"a">>, <<"b">>, <<"a", "a">>}
OrchDirs == {<<>>, <<"a">>, <<"b">>}
MainDirs == {<<>>, <<"a">>, <<"a", "a">>}
ScanTree == {<<>>, <<"a">>, <<"build">>, <<"build", "a">>, <<"build-tools">>}
WatchTree == {<<>>, <<"a">>, <<"build">>}
RegistryDirs == {<<"a">>, <<"a", "a">>, <<"b">>}
StartDir == <<"a">>     \* where the service of RegistrySpec is started

IsPrefix(p, d) == Len(p) <= Len(d) /\ SubSeq(d, 1, Len(p)) = p
Rel(base, d)   == SubSeq(d, Len(base) + 1, Len(d))
Keys           == {Rel(x[1], x[2]) : x \in {y \in AllDirs \X AllDirs : IsPrefix(y[1], y[2])}}

\* What a relative path names at the time it is used.
Resolve(rel) == cwd \o rel

\* os.Chdir(path) with a relative path: the new working directory, or the
\* old one when the target does not exist (the call returns an error).
ChdirOk(rel)     == Resolve(rel) \in dirs
ChdirTarget(rel) == IF ChdirOk(rel) THEN Resolve(rel) ELSE cwd

\* git rev-parse --git-dir in directory d: d or a parent is a working tree.
InWorkTree(d) == \E g \in gitDirs : IsPrefix(g, d)

\* The repository a git command run in directory d works on.
RepoOf(d) ==
    CHOOSE g \in gitDirs : /\ IsPrefix(g, d)
                           /\ \A h \in gitDirs : IsPrefix(h, d) => Len(h) <= Len(g)

(***************************************************************************)
(* scanner.go                                                              *)
(***************************************************************************)
ExcludePaths == {"node_modules", "*.log", "*.tmp", ".DS_Store", "vendor",
                 "target", "build"}

\* filepath.Match(pattern, name) for the names of the tree.
GlobMatch(pattern, name) == pattern = name

\* strings.Contains(name, pattern), by table, for the names of the tree.
SubstringPairs == {<<"build-tools", "build">>}
NameContains(name, pattern) == name = pattern \/ <<name, pattern>> \in SubstringPairs

Base(d) == IF d = <<>> THEN "." ELSE d[Len(d)]

\* scanPath without its exclusion loop
ExcludedNever(d) == FALSE

\* scanPath, lines 76-84: a pattern matches filepath.Base(path)
ExcludedName(d) == \E e \in ExcludePaths : GlobMatch(e, Base(d))

\* What filepath.Walk has done when it returns: the repositories appended so
\* far, in order, and whether the callback returned an error.
NoWalk == [repos |-> <<>>, err |-> FALSE]
WalkFailed == [repos |-> <<>>, err |-> TRUE]

\* the walk went on after first and did rest
WalkJoin(first, rest) ==
    [repos |-> first.repos \o rest.repos, err |-> rest.err]

\* a callback that takes every directory for a repository
IsRepositoryAlways(d) == TRUE

\* scanPath, line 87: the entry .git of d is a directory
IsRepository(d) == d \in gitDirs

RECURSIVE WalkDir(_), WalkBody(_), WalkChildren(_, _), WalkRest(_, _, _)
\* filepath.Walk on directory d below the root of the walk: it reads the
\* entries of d, then calls the callback of scanPath.  A directory whose
\* entries cannot be read makes the callback return the error, which ends the
\* walk; an excluded name makes it return SkipDir.
WalkDir(d) ==
    IF d \in unreadable THEN WalkFailed
    ELSE IF ExcludedName(d) THEN NoWalk
    ELSE WalkBody(d)
\* The same for a directory whose name is not tested (the root of the walk
\* is "."): .git, the first entry, reports the repository, and the other
\* entries follow.
WalkBody(d) ==
    IF d \in unreadable THEN WalkFailed
    ELSE WalkRest(IF IsRepository(d) THEN [repos |-> <<d>>, err |-> FALSE] ELSE NoWalk,
                  d, 1)
WalkChildren(d, i) ==
    IF i > Len(Names) THEN NoWalk
    ELSE WalkRest(IF d \o <<Names[i]>> \in dirs THEN WalkDir(d \o <<Names[i]>>)
                                                ELSE NoWalk,
                  d, i + 1)
\* first: the walk so far; the entries of d from the i-th on follow unless
\* the walk has ended with an error
WalkRest(first, d, i) ==
    IF first.err THEN first
    ELSE WalkJoin(first, WalkChildren(d, i))

\* RepoScanner.isRepositoryActive
isRepositoryActive(path) ==
    ~ \E e \in ExcludePaths : \E i \in 1..Len(path) : NameContains(path[i], e)

RECURSIVE FilterSeq(_)
FilterSeq(s) ==
    IF s = <<>> THEN <<>>
    ELSE (IF isRepositoryActive(Head(s).Path) THEN <<Head(s)>> ELSE <<>>)
         \o FilterSeq(Tail(s))

\* analyzeRepository: the remotes of the descriptor; a failing git remote -v
\* leaves them empty
ListedRemotes(d) == IF d \in listFails THEN {} ELSE {"origin"}

\* Config.ScanPaths as configured for the service of RegistrySpec: the
\* directory it is started in and the directory b beside it
ScanPaths == {StartDir, <<"b">>}

\* getScanPaths: []string{"."} whatever the configuration holds; "." is the
\* working directory at the time of the scan
getScanPaths == <<cwd>>

\* scanPath("."): the walk starts at the working directory, whose name is "."
\* ScanForRepositories drops what a scan path found when its walk returned
\* an error.
scanPath == WalkBody(getScanPaths[1])
Collected(w) == IF w.err THEN <<>> ELSE w.repos

\* ScanForRepositories({"."}).  Path is the path the scanner reports
\* (relative to the working directory of the moment); Abs, the directory it
\* names, is kept for the properties only.
Descriptors(w) ==
    [i \in 1..Len(w) |-> [Path |-> Rel(cwd, w[i]), Abs |-> w[i],
                          Remotes |-> ListedRemotes(w[i])]]
ScanForRepositories == Descriptors(Collected(scanPath))

(***************************************************************************)
(* multi_repo_service.go                                                   *)
(***************************************************************************)
NoDir    == <<"-">>     \* no directory
NoWorker == [pc |-> "none", abs |-> <<>>, orig |-> <<>>, cmdDir |-> NoDir]

\* NewGitAirService: NewGitRepository(".") verified in the working directory.
ServiceRepoPath == <<>>
NewGitAirServiceOk(watcherOk) == watcherOk /\ InWorkTree(Resolve(ServiceRepoPath))

\* a registration that replaces the map by one with the new entry alone
RegisterAlone(svcs, key) == {key}

\* mrs.services[repo.Path] = service
RegisterDropped(svcs, key) == svcs
Register(svcs, key) == svcs \cup {key}

\* a lookup that never finds the key
RegisteredNever(svcs, key) == FALSE

\* _, exists := mrs.services[repo.Path]
Registered(svcs, key) == key \in svcs

\* An access to the map mrs.services: op is "read" or "write", lock the
\* state of mrs.mutex in the goroutine at that point ("Lock", "RLock", or
\* "none" when the goroutine holds neither).
Access(op, lock) == <<op, lock>>

\* startServiceForRepository(ctx, repo): mrs.mutex.Lock() with a deferred
\* Unlock around the whole of it
startServiceForRepository(repo) ==
    IF Registered(services, repo.Path)
    THEN /\ mapAccess' = {Access("read", "Lock")}
         /\ UNCHANGED <<services, started, wk>>
    ELSE \E watcherOk \in BOOLEAN :
           IF ~NewGitAirServiceOk(watcherOk)
           THEN /\ mapAccess' = {Access("read", "Lock")}
                /\ UNCHANGED <<services, started, wk>>
           ELSE /\ mapAccess' = {Access("read", "Lock"), Access("write", "Lock")}
                /\ started[repo.Path] < MaxStarts
                /\ started' = [started EXCEPT ![repo.Path] = @ + 1]
                /\ wk' = [wk EXCEPT ![repo.Path] =
                            [pc |-> "spawned", abs |-> repo.Abs,
                             orig |-> <<>>, cmdDir |-> NoDir]]
                /\ services' = Register(services, repo.Path)

\* discoverRepositories: it takes the lock to assign mrs.repositories and
\* does not touch mrs.services
discoverRepositories ==
    /\ repositories' = FilterSeq(ScanForRepositories)
    /\ scans' = scans + 1
    /\ mapAccess' = {}

\* Start: the initial scan
InitialScan ==
    /\ opc = "discover"
    /\ discoverRepositories
    /\ opc' = "starting"
    /\ idx' = 1
    /\ UNCHANGED <<mainVars, fsVars, services, started, wk, ctxDone,
                   workerVars>>

\* startRepositoryServices: one iteration of its loop, or its end, where
\* line 122 logs len(mrs.services) after the RUnlock of line 113
StartRepositoryService ==
    /\ opc = "starting"
    /\ IF idx <= Len(repositories)
       THEN /\ startServiceForRepository(repositories[idx])
            /\ idx' = idx + 1
            /\ opc' = opc
       ELSE /\ opc' = "loop"
            /\ mapAccess' = {Access("read", "none")}
            /\ UNCHANGED <<idx, services, started, wk>>
    /\ UNCHANGED <<mainVars, fsVars, repositories, ctxDone, scans,
                   workerVars>>

\* Start, lines 70-71: a case of the select is taken only while Start is in
\* its loop; the ctx.Done case returns from it
InSelectLoopAlways(pc) == TRUE
InSelectLoop(pc) == pc = "loop"

\* Start: case <-scanTicker.C, up to the loop of periodicRepositoryScan
ScanTick ==
    /\ InSelectLoop(opc)
    /\ scans < MaxScans
    /\ discoverRepositories
    /\ opc' = "rescan"
    /\ idx' = 1
    /\ UNCHANGED <<mainVars, fsVars, services, started, wk, ctxDone,
                   workerVars>>

\* periodicRepositoryScan: the read-locked lookup of one iteration
RescanLookup ==
    /\ opc = "rescan"
    /\ IF idx > Len(repositories)
       THEN opc' = "loop" /\ idx' = idx /\ mapAccess' = {}
       ELSE /\ mapAccess' = {Access("read", "RLock")}
            /\ IF Registered(services, repositories[idx].Path)
               THEN opc' = opc /\ idx' = idx + 1
               ELSE opc' = "rescanStart" /\ idx' = idx
    /\ UNCHANGED <<mainVars, fsVars, repositories, services, started, wk, ctxDone, scans,
                   workerVars>>

\* periodicRepositoryScan: startServiceForRepository for a key not found
RescanStart ==
    /\ opc = "rescanStart"
    /\ startServiceForRepository(repositories[idx])
    /\ idx' = idx + 1
    /\ opc' = "rescan"
    /\ UNCHANGED <<mainVars, fsVars, repositories, ctxDone, scans,
                   workerVars>>

\* Start: case <-ctx.Done(), stopAllServices
StopAllServices ==
    /\ InSelectLoop(opc)
    /\ ctxDone
    /\ services' = {}
    /\ mapAccess' = {Access("read", "Lock"), Access("write", "Lock")}
    /\ opc' = "stopped"
    /\ UNCHANGED <<mainVars, fsVars, repositories, idx, started, wk, ctxDone, scans,
                   workerVars>>

\* GetRepositoryStatus: the status map it returns
GetRepositoryStatus ==
    [total_repositories |-> Len(repositories),
     active_services    |-> Cardinality(services),
     repositories       |->
         [i \in 1..Len(repositories) |->
             [path           |-> repositories[i].Path,
              remotes        |-> Cardinality(repositories[i].Remotes),
              service_active |-> repositories[i].Path \in services]]]

\* A goroutine of the program calls GetRepositoryStatus: it reads the map
\* under mrs.mutex.RLock() with a deferred RUnlock.
StatusCall ==
    /\ mapAccess' = {Access("read", "RLock")}
    /\ UNCHANGED <<mainVars, fsVars, opc, repositories, idx, services, started, wk,
                   ctxDone, scans, workerVars>>

\* The signal handler cancels the context.
Cancel ==
    /\ ~ctxDone
    /\ opc # "discover"
    /\ ctxDone' = TRUE
    /\ UNCHANGED <<mainVars, fsVars, opc, repositories, idx, services, started, wk, scans, mapAccess,
                   workerVars>>

(***************************************************************************)
(* The worker goroutine of startServiceForRepository (lines 148-167)       *)
(***************************************************************************)
\* originalDir := getCurrentDir()
WorkerGetDir(k) ==
    /\ wk[k].pc = "spawned"
    /\ wk' = [wk EXCEPT ![k].orig = cwd, ![k].pc = "chdir"]
    /\ UNCHANGED <<mainVars, fsVars, opc, repositories, idx, services, started, ctxDone,
                   scans, mapAccess,
                   workerVars>>

\* changeDir(repoPath)
WorkerChdir(k) ==
    /\ wk[k].pc = "chdir"
    /\ cwd' = ChdirTarget(k)
    /\ wk' = [wk EXCEPT ![k].pc = IF ChdirOk(k) THEN "start" ELSE "restore"]
    /\ UNCHANGED <<mainVars, dirs, gitDirs, modDirs, created, unreadable, listFails, opc, repositories, idx, services, started,
                   ctxDone, scans, mapAccess,
                   workerVars>>

\* svc.Start up to its loop: addWatchPaths(".") may fail
WorkerStart(k) ==
    /\ wk[k].pc = "start"
    /\ \E watchOk \in BOOLEAN :
         wk' = [wk EXCEPT ![k].pc = IF watchOk THEN "running" ELSE "restore"]
    /\ UNCHANGED <<mainVars, fsVars, opc, repositories, idx, services, started, ctxDone,
                   scans, mapAccess,
                   workerVars>>

\* A git command of the worker's GitRepository: cmd.Dir = r.path = "."
WorkerGitCommand(k) ==
    /\ wk[k].pc = "running"
    /\ wk' = [wk EXCEPT ![k].cmdDir = Resolve(ServiceRepoPath)]
    /\ UNCHANGED <<mainVars, fsVars, opc, repositories, idx, services, started, ctxDone,
                   scans, mapAccess,
                   workerVars>>

\* svc.Start: case <-ctx.Done()
WorkerStop(k) ==
    /\ wk[k].pc = "running"
    /\ ctxDone
    /\ wk' = [wk EXCEPT ![k].pc = "restore"]
    /\ UNCHANGED <<mainVars, fsVars, opc, repositories, idx, services, started, ctxDone,
                   scans, mapAccess,
                   workerVars>>

\* the deferred changeDir(originalDir); it fails when the directory is gone
WorkerRestore(k) ==
    /\ wk[k].pc = "restore"
    /\ cwd' = IF wk[k].orig \in dirs THEN wk[k].orig ELSE cwd
    /\ wk' = [wk EXCEPT ![k].pc = "exited"]
    /\ UNCHANGED <<mainVars, dirs, gitDirs, modDirs, created, unreadable, listFails, opc, repositories, idx, services, started,
                   ctxDone, scans, mapAccess,
                   workerVars>>

\* A user creates a repository in a directory of the tree.
CreateRepository(d) ==
    /\ d \in dirs \ gitDirs
    /\ opc \in {"starting", "loop", "rescan", "rescanStart"}
    /\ gitDirs' = gitDirs \cup {d}
    /\ created' = created \cup {d}
    /\ UNCHANGED <<mainVars, dirs, modDirs, unreadable, listFails, cwd, orchVars,
                   workerVars>>

\* git remote -v starts to fail in a repository (its configuration is
\* damaged, say): from the next scan on its descriptor has no remotes.
RemoteListingBreaks(d) ==
    /\ d \in gitDirs \ listFails
    /\ Cardinality(listFails) < MaxBreaks
    /\ opc \in {"starting", "loop", "rescan", "rescanStart"}
    /\ listFails' = listFails \cup {d}
    /\ UNCHANGED <<mainVars, dirs, gitDirs, modDirs, created, unreadable, cwd, orchVars,
                   workerVars>>

\* A user deletes a repository: a directory without subdirectories, in which
\* the process is not.
RemoveRepository(d) ==
    /\ d \in gitDirs
    /\ \A e \in dirs : IsPrefix(d, e) => e = d
    /\ ~IsPrefix(d, cwd)
    /\ Cardinality(dirs) > Cardinality(RegistryDirs) - MaxRemovals
    /\ opc \in {"starting", "loop", "rescan", "rescanStart"}
    /\ dirs' = dirs \ {d}
    /\ gitDirs' = gitDirs \ {d}
    /\ created' = created \ {d}
    /\ UNCHANGED <<mainVars, modDirs, unreadable, listFails, cwd, orchVars,
                   workerVars>>

(***************************************************************************)
(* git.go: GitRepository, by the effect of the git commands it runs on the *)
(* working tree t = [hasHead, staged, modified, untracked]                 *)
(***************************************************************************)
RemoteNames == {"backup", "origin"}

CleanTree == [hasHead |-> TRUE, staged |-> FALSE, modified |-> FALSE,
              untracked |-> FALSE]
FreshTree == [hasHead |-> FALSE, staged |-> FALSE, modified |-> FALSE,
              untracked |-> FALSE]

\* git diff-index --quiet --cached HEAD -- exits 0 (it fails without a HEAD)
DiffIndexCachedQuiet(t) == t.hasHead /\ ~t.staged
\* git diff-index --quiet HEAD -- exits 0: it compares tracked files only
DiffIndexQuiet(t) == t.hasHead /\ ~t.staged /\ ~t.modified

\* GitRepository.HasChanges
HasChanges(t) == IF ~DiffIndexCachedQuiet(t) THEN TRUE ELSE ~DiffIndexQuiet(t)

\* GitRepository.AddAll: git add .
GitAdd(t) == [t EXCEPT !.staged = t.staged \/ t.modified \/ t.untracked,
                       !.modified = FALSE, !.untracked = FALSE]

\* git commit -m message: fails with nothing staged
CanCommit(t) == t.staged
GitCommit(t) == [t EXCEPT !.staged = FALSE, !.hasHead = TRUE]

\* The orders in which a loop may visit the remotes rs.
Orders(rs) == {o \in [1..Cardinality(rs) -> rs] :
                 \A i, j \in 1..Cardinality(rs) : i # j => o[i] # o[j]}

NoAttempts == [r \in RemoteNames |-> 0]

\* GitRepository.GetCurrentBranch: what git branch --show-current gives: a
\* branch name, nothing (detached HEAD, exit status 0), or an error
BranchOutcomes == {"main", "", "error"}

\* GetCurrentBranch, lines 216-219: err # nil
BranchError(branch) == branch = "error"

RECURSIVE PushEach(_, _, _)
\* GitRepository.Push, lines 95-104: one git push per remote, errors collected
PushEach(order, ok, acc) ==
    IF order = <<>> THEN acc
    ELSE LET r == Head(order)
         IN  PushEach(Tail(order), ok,
                 [attempts |-> [acc.attempts EXCEPT ![r] = @ + 1],
                  errors   |-> IF ok[r] THEN acc.errors
                                        ELSE Append(acc.errors, r)])

\* GitRepository.Push: err is the error returned ("nil": none), attempts the
\* git push commands run per remote, errors the remotes named in the error
Push(rs, remotesOk, branch, order, ok) ==
    IF ~remotesOk
    THEN [err |-> "failed to get remotes", attempts |-> NoAttempts, errors |-> <<>>]
    ELSE IF rs = {}
    THEN [err |-> "no remote repository configured", attempts |-> NoAttempts,
          errors |-> <<>>]
    ELSE IF BranchError(branch)
    THEN [err |-> "failed to get current branch", attempts |-> NoAttempts,
          errors |-> <<>>]
    ELSE LET res == PushEach(order, ok, [attempts |-> NoAttempts, errors |-> <<>>])
         IN  [err      |-> IF Len(res.errors) > 0 THEN "push failures" ELSE "nil",
              attempts |-> res.attempts,
              errors   |-> res.errors]

\* a loop that returns at the first remote, whatever its pull gave
PullEachFirstOnly(order, ok, acc) ==
    IF order = <<>> THEN acc
    ELSE [attempts |-> [acc.attempts EXCEPT ![Head(order)] = @ + 1],
          pulled   |-> IF ok[Head(order)] THEN {Head(order)} ELSE {},
          err      |-> IF ok[Head(order)] THEN "nil" ELSE "git pull failed"]

RECURSIVE PullEach(_, _, _)
\* GitRepository.Pull, lines 130-149: git pull per remote until one succeeds
PullEach(order, ok, acc) ==
    IF order = <<>> THEN acc
    ELSE LET r   == Head(order)
             now == [attempts |-> [acc.attempts EXCEPT ![r] = @ + 1],
                     pulled   |-> IF ok[r] THEN {r} ELSE {},
                     err      |-> IF ok[r] THEN "nil" ELSE "git pull failed"]
         IN  IF ok[r] THEN now ELSE PullEach(Tail(order), ok, now)

\* GitRepository.Pull
Pull(rs, remotesOk, branch, order, ok) ==
    IF ~remotesOk
    THEN [err |-> "failed to get remotes", attempts |-> NoAttempts, pulled |-> {}]
    ELSE IF rs = {}
    THEN [err |-> "no remote repository configured", attempts |-> NoAttempts,
          pulled |-> {}]
    ELSE IF BranchError(branch)
    THEN [err |-> "failed to get current branch", attempts |-> NoAttempts,
          pulled |-> {}]
    ELSE PullEach(order, ok, [attempts |-> NoAttempts, pulled |-> {}, err |-> "nil"])

\* GitRepository.HasRemote: the output of git remote contains "origin"
HasRemote(rs) == "origin" \in rs

\* GitRepository.HasRemoteChanges: the result, or "error"
HasRemoteChanges(rs, ah, fetchOk, branch) ==
    IF HasRemote(rs) /\ ~fetchOk THEN "error"
    ELSE IF BranchError(branch) THEN "error"
    ELSE IF branch = "" THEN "false"     \* git rev-parse origin/ fails
    ELSE IF "origin" \in rs /\ "origin" \in ah THEN "true" ELSE "false"

(***************************************************************************)
(* The Go part of git-air-daemon.sh: GitAirService                         *)
(***************************************************************************)
Threads == 0..MaxEvents     \* 0: Start; i > 0: the goroutine of the i-th event

NoThread == MaxEvents + 1
NoCycle == [kind |-> "none", retryDue |-> FALSE, newFileOnly |-> FALSE,
            detected |-> FALSE, committed |-> FALSE, attempts |-> NoAttempts,
            failed |-> {}, reported |-> {}, errors |-> 0, cmdFailed |-> FALSE,
            aheadAt |-> {}]

InSequence(t) == tpc[t] \in {"addAll", "commit", "push", "pull"}
Sleeping      == {t \in Threads : tpc[t] = "sleep"}

\* Where a goroutine is once its sequence has returned.
Returned(t) == IF t = 0 THEN "select" ELSE "done"

\* One sequence at a time is recorded (any one: the choice is free when it
\* starts); its record c is kept in cyc until the sequence has returned.
\* A goroutine reaches the end of its sequence:
Finish(t, c) ==
    /\ tpc' = [tpc EXCEPT ![t] = IF obs = t THEN "finished" ELSE Returned(t)]
    /\ cyc' = IF obs = t THEN c ELSE cyc
    /\ UNCHANGED obs

\* ... or goes on to the step pc of it:
Continue(t, pc, c) ==
    /\ tpc' = [tpc EXCEPT ![t] = pc]
    /\ cyc' = IF obs = t THEN c ELSE cyc
    /\ UNCHANGED obs

\* whether performAutoCommit returns right after HasChanges
NoChangesReturn(t) == ~HasChanges(t)

\* performAutoCommit, lines 270-273: HasChanges
EnterCommit(t) ==
    LET c == [NoCycle EXCEPT !.kind = "commit",
                             !.retryDue = (pushFailed # {}),
                             !.newFileOnly = tree.untracked /\ ~tree.modified
                                             /\ ~tree.staged,
                             !.detected = HasChanges(tree)]
        pc == IF NoChangesReturn(tree) THEN "finished" ELSE "addAll"
    IN  \E watch \in BOOLEAN :
          /\ watch => obs = NoThread
          /\ obs' = IF watch THEN t ELSE obs
          /\ cyc' = IF watch THEN c ELSE cyc
          /\ tpc' = [tpc EXCEPT ![t] = IF pc = "finished" /\ ~watch
                                       THEN Returned(t) ELSE pc]

\* handleFileEvent without its AutoCommit test
SpawnsTriggerUngated(excluded) == ~excluded

\* whether handleFileEvent starts a goroutine for an event
SpawnsTrigger(excluded) == ~excluded /\ cfg.AutoCommit

\* a walk that adds a watch for every directory below the root
addWatchPathsAll(root) == {d \in dirs : IsPrefix(root, d)}

\* addWatchPaths(root): the directories filepath.Walk reaches from root when
\* the callback returns SkipDir at every name below root that matches a
\* pattern; watcher.Add is called for each of them
addWatchPaths(root) ==
    {d \in dirs : /\ IsPrefix(root, d)
                  /\ \A j \in (Len(root) + 1)..Len(d) :
                         ~ExcludedName(SubSeq(d, 1, j))}

\* Start: case <-watchTicker.C
WatchTick ==
    /\ tpc[0] = "select"
    /\ IF cfg.AutoCommit THEN EnterCommit(0) ELSE UNCHANGED <<tpc, obs, cyc>>
    /\ UNCHANGED <<mainVars, fsVars, orchVars, cfg, events, spawned, tree, remotes,
                   ahead, pushFailed, edits>>

\* Start: case event := <-s.watcher.Events, handleFileEvent
HandleFileEvent ==
    /\ tpc[0] = "select"
    /\ events # <<>>
    /\ events' = Tail(events)
    /\ IF SpawnsTrigger(Head(events).excluded)
       THEN /\ spawned < MaxEvents
            /\ spawned' = spawned + 1
            /\ tpc' = [tpc EXCEPT ![spawned + 1] = "sleep"]
       ELSE UNCHANGED <<spawned, tpc>>
    /\ UNCHANGED <<mainVars, fsVars, orchVars, cfg, tree, remotes, ahead, pushFailed,
                   obs, cyc, edits>>

\* the goroutine of handleFileEvent after time.Sleep: performAutoCommit
TriggerFire(t) ==
    /\ t # 0
    /\ tpc[t] = "sleep"
    /\ EnterCommit(t)
    /\ UNCHANGED <<mainVars, fsVars, orchVars, cfg, events, spawned, tree, remotes,
                   ahead, pushFailed, edits>>

\* performAutoCommit, lines 277-281: AddAll
StepAddAll(t) ==
    /\ tpc[t] = "addAll"
    /\ \E ok \in BOOLEAN :
         IF ok
         THEN /\ tree' = GitAdd(tree)
              /\ Continue(t, "commit", cyc)
         ELSE /\ Finish(t, [cyc EXCEPT !.errors = @ + 1, !.cmdFailed = TRUE])
              /\ UNCHANGED tree
    /\ UNCHANGED <<mainVars, fsVars, orchVars, cfg, events, spawned, remotes, ahead,
                   pushFailed, edits>>

\* performAutoCommit, lines 295-298, after a Commit that returned nil
AfterCommit(t, c) ==
    IF cfg.AutoPush THEN Continue(t, "push", c) ELSE Finish(t, c)

\* performAutoCommit, lines 283-298: Commit
StepCommit(t) ==
    /\ tpc[t] = "commit"
    /\ IF DiffIndexCachedQuiet(tree)
       THEN /\ AfterCommit(t, cyc)
            /\ UNCHANGED tree
       ELSE \E ok \in BOOLEAN :
              IF ok /\ CanCommit(tree)
              THEN /\ tree' = GitCommit(tree)
                   /\ AfterCommit(t, [cyc EXCEPT !.committed = TRUE])
              ELSE /\ Finish(t, [cyc EXCEPT !.errors = @ + 1, !.cmdFailed = TRUE])
                   /\ UNCHANGED tree
    /\ UNCHANGED <<mainVars, fsVars, orchVars, cfg, events, spawned, remotes, ahead,
                   pushFailed, edits>>

\* The outcomes Push and Pull consume: the branch lookup is reached only
\* with a non-empty remote list, the per-remote commands only with a branch.
\* Outcomes of commands that are not run are held at one value.
Consumed(rs, remotesOk, branch, order, ok) ==
    /\ (~remotesOk \/ rs = {}) => branch = "main"
    /\ (~remotesOk \/ rs = {} \/ BranchError(branch)) =>
           /\ \A r \in rs : ok[r]
           /\ order = CHOOSE o \in Orders(rs) : TRUE

\* performAutoPush
StepPush(t) ==
    /\ tpc[t] = "push"
    /\ \E remotesOk \in BOOLEAN, branch \in BranchOutcomes, order \in Orders(remotes),
          ok \in [remotes -> BOOLEAN] :
         LET res == Push(remotes, remotesOk, branch, order, ok)
             bad == {res.errors[i] : i \in 1..Len(res.errors)}
             hit == {r \in remotes : res.attempts[r] > 0}
         IN  /\ Consumed(remotes, remotesOk, branch, order, ok)
             /\ Finish(t, [cyc EXCEPT
                            !.attempts = res.attempts,
                            !.failed = bad,
                            !.reported = IF res.err = "nil" THEN {} ELSE bad,
                            !.errors = IF res.err = "nil" THEN @ ELSE @ + 1,
                            !.cmdFailed = @ \/ (res.err \notin
                                {"nil", "no remote repository configured"})])
             /\ pushFailed' = (pushFailed \ hit) \cup bad
    /\ UNCHANGED <<mainVars, fsVars, orchVars, cfg, events, spawned, tree, remotes,
                   ahead, edits>>

\* Start: case <-pullTicker.C, performAutoPull up to HasRemoteChanges
PullTick ==
    /\ tpc[0] = "select"
    /\ IF ~cfg.AutoPull THEN UNCHANGED <<tpc, obs, cyc>>
       ELSE \E fetchOk, watch \in BOOLEAN, branch \in BranchOutcomes :
              LET has == HasRemoteChanges(remotes, ahead, fetchOk, branch)
                  c   == [NoCycle EXCEPT !.kind = "pull", !.aheadAt = ahead,
                              !.errors = IF has = "error" THEN 1 ELSE 0,
                              !.cmdFailed = (has = "error")]
                  pc  == IF has = "true" THEN "pull" ELSE "finished"
              IN  /\ watch => obs = NoThread
                  /\ obs' = IF watch THEN 0 ELSE obs
                  /\ cyc' = IF watch THEN c ELSE cyc
                  /\ tpc' = [tpc EXCEPT ![0] = IF pc = "finished" /\ ~watch
                                               THEN Returned(0) ELSE pc]
    /\ UNCHANGED <<mainVars, fsVars, orchVars, cfg, events, spawned, tree, remotes,
                   ahead, pushFailed, edits>>

\* performAutoPull, lines 327-334: Pull
StepPull(t) ==
    /\ tpc[t] = "pull"
    /\ \E remotesOk \in BOOLEAN, branch \in BranchOutcomes, order \in Orders(remotes),
          ok \in [remotes -> BOOLEAN] :
         LET res == Pull(remotes, remotesOk, branch, order, ok)
         IN  /\ Consumed(remotes, remotesOk, branch, order, ok)
             /\ Finish(t, [cyc EXCEPT
                            !.attempts = res.attempts,
                            !.failed = {r \in remotes : res.attempts[r] > 0}
                                       \ res.pulled,
                            !.errors = IF res.err = "nil" THEN @ ELSE @ + 1,
                            !.cmdFailed = (res.err # "nil")])
             /\ ahead' = ahead \ res.pulled
    /\ UNCHANGED <<mainVars, fsVars, orchVars, cfg, events, spawned, tree, remotes,
                   pushFailed, edits>>

\* performAutoCommit or performAutoPull returns: Start goes back to its
\* select, the goroutine of an event ends.
Return(t) ==
    /\ tpc[t] = "finished"
    /\ tpc' = [tpc EXCEPT ![t] = Returned(t)]
    /\ obs' = NoThread
    /\ cyc' = NoCycle
    /\ UNCHANGED <<mainVars, fsVars, orchVars, cfg, events, spawned, tree, remotes,
                   ahead, pushFailed, edits>>

\* Start: case <-ctx.Done()
ServiceStop ==
    /\ tpc[0] = "select"
    /\ ctxDone
    /\ tpc' = [tpc EXCEPT ![0] = "exited"]
    /\ UNCHANGED <<mainVars, fsVars, opc, repositories, idx, services, started, wk, ctxDone,
                   scans, mapAccess, cfg, events, spawned, tree, remotes, ahead,
                   pushFailed, obs, cyc, edits>>

\* The signal handler cancels the service's context.
ServiceCancel ==
    /\ ~ctxDone
    /\ ctxDone' = TRUE
    /\ UNCHANGED <<mainVars, fsVars, opc, repositories, idx, services, started, wk, scans, mapAccess,
                   workerVars>>

\* A file in directory d is created or modified; the file belongs to the
\* working tree of the service's repository unless d is in a nested
\* repository.  The watcher delivers an event for it only when it watches d
\* (fsnotify watches are per directory), under a name that may match an
\* exclusion pattern.
FileEdit(kind, d, notify, excluded) ==
    /\ edits < MaxEdits
    /\ edits' = edits + 1
    /\ kind = "modify" => tree.hasHead
    /\ tree' = IF RepoOf(d) # RepoOf(cwd) THEN tree
               ELSE IF kind = "create" THEN [tree EXCEPT !.untracked = TRUE]
                                       ELSE [tree EXCEPT !.modified = TRUE]
    /\ IF notify
       THEN /\ tpc[0] # "exited"
            /\ d \in addWatchPaths(cwd)
            /\ Len(events) + spawned < MaxEvents
            /\ events' = Append(events, [dir |-> d, excluded |-> excluded])
       ELSE /\ ~excluded
            /\ UNCHANGED events
    /\ UNCHANGED <<mainVars, fsVars, orchVars, cfg, tpc, spawned, remotes, ahead,
                   pushFailed, obs, cyc>>

(***************************************************************************)
(* main.go: the single-loop program                                        *)
(***************************************************************************)
SkippedNames == {"node_modules", "vendor"}

RECURSIVE findWalk(_), findWalkChildren(_, _)
\* findGitRepos: the callback of filepath.Walk, from directory d on
findWalk(d) ==
    IF Base(d) \in SkippedNames THEN <<>>
    ELSE (IF d \in gitDirs THEN <<d>> ELSE <<>>) \o findWalkChildren(d, 1)
findWalkChildren(d, i) ==
    IF i > Len(Names) THEN <<>>
    ELSE (IF d \o <<Names[i]>> \in dirs THEN findWalk(d \o <<Names[i]>>) ELSE <<>>)
         \o findWalkChildren(d, i + 1)

\* findGitRepos("."): the paths are relative to the working directory
findGitRepos ==
    LET w == findWalk(cwd) IN [i \in 1..Len(w) |-> Rel(cwd, w[i])]

\* isMonorepo(repoPath) called with working directory at: both the Stat and
\* the Walk take repoPath relative to at
isMonorepo(at, repoPath) ==
    LET base == at \o repoPath
    IN  \/ base \in modDirs
        \/ /\ base \in dirs
           /\ \E g \in gitDirs : IsPrefix(base, g) /\ g # base

\* runGit("add", ".") in directory d
mainAdd(t, d, ok) ==
    IF ok /\ InWorkTree(d) /\ t[RepoOf(d)] # "clean"
    THEN [t EXCEPT ![RepoOf(d)] = "staged"] ELSE t

\* syncSubmodules(repoPath) called with working directory at and tree state t;
\* bumped: the update moves a submodule pointer
syncSubmodules(at, repoPath, t, updateOk, bumped) ==
    LET in   == IF at \o repoPath \in dirs THEN at \o repoPath ELSE at
        ran  == in \o repoPath \in modDirs
        done == updateOk /\ InWorkTree(in)
        t1   == IF done /\ bumped THEN [t EXCEPT ![RepoOf(in)] = "dirty"] ELSE t
    IN  IF ~ran THEN [ok |-> TRUE, updateRun |-> FALSE, tree |-> t]
        ELSE IF ~done THEN [ok |-> FALSE, updateRun |-> TRUE, tree |-> t]
        ELSE [ok |-> TRUE, updateRun |-> TRUE, tree |-> mainAdd(t1, in, TRUE)]

\* hasChanges() in directory d: git status --porcelain prints something
hasChanges(t, d, statusOk) == statusOk /\ InWorkTree(d) /\ t[RepoOf(d)] # "clean"

\* processRepo, lines 90-93: the cycle ends when syncSubmodules returned false
SkipsNever(syncOk) == FALSE
SkipsRepo(syncOk) == ~syncOk

RECURSIVE pushLoop(_, _, _)
\* pushToAllRemotes, lines 149-152: the result of runGit is dropped
pushLoop(rs, ok, acc) ==
    IF rs = <<>> THEN acc
    ELSE pushLoop(Tail(rs), ok,
             [attempts |-> [acc.attempts EXCEPT ![Head(rs)] = @ + 1],
              failed   |-> IF ok[Head(rs)] THEN acc.failed
                                           ELSE acc.failed \cup {Head(rs)},
              reported |-> acc.reported,
              noBranch |-> acc.noBranch])

\* getCurrentBranch(): the trimmed output, "main" when the command fails
getCurrentBranch(branch) == IF BranchError(branch) THEN "main" ELSE branch

\* The outcomes getCurrentBranch can have where it is called: it is called
\* only after getRemotes has returned a remote.
BranchLookups(called) == IF called THEN BranchOutcomes ELSE {"main"}

\* getRemotes(): the fields of the output of git remote, none on an error
getRemotes(remotesOk) == IF remotesOk THEN mremotes ELSE <<>>

\* pushToAllRemotes
pushToAllRemotes(remotesOk, branch, ok) ==
    pushLoop(getRemotes(remotesOk), ok,
             [attempts |-> NoAttempts, failed |-> {}, reported |-> {},
              noBranch |-> getRemotes(remotesOk) # <<>> /\ branch # "main"])

RECURSIVE pullLoop(_, _, _, _)
\* pullFromRemotes, lines 166-175: fetch, hasRemoteChanges, pull per remote
pullLoop(rs, ah, ok, acc) ==
    IF rs = <<>> THEN acc
    ELSE LET r == Head(rs)
         IN  pullLoop(Tail(rs), ah, ok,
                 [fetched |-> Append(acc.fetched, r),
                  pulls   |-> IF r \in ah THEN Append(acc.pulls, r) ELSE acc.pulls,
                  pulled  |-> IF r \in ah /\ ok[r] THEN acc.pulled \cup {r}
                                                  ELSE acc.pulled,
                  noBranch |-> acc.noBranch])

\* pullFromRemotes
pullFromRemotes(remotesOk, branch, ah, ok) ==
    pullLoop(getRemotes(remotesOk), ah, ok,
             [fetched |-> <<>>, pulls |-> <<>>, pulled |-> {},
              noBranch |-> getRemotes(remotesOk) # <<>> /\ branch # "main"])

NoMainCycle ==
    [kind |-> "none", repo |-> <<>>, abs |-> NoDir, mono |-> FALSE,
     syncCalled |-> FALSE, updateRun |-> FALSE, syncOk |-> TRUE,
     checked |-> FALSE, changed |-> FALSE, addOk |-> FALSE,
     commitRun |-> FALSE, commitOk |-> FALSE, pushRun |-> FALSE,
     attempts |-> NoAttempts, failed |-> {}, reported |-> {},
     fetched |-> <<>>, pulls |-> <<>>, pulled |-> {},
     noBranch |-> FALSE, before |-> NoDir, after |-> NoDir]

\* main: repos, err := findGitRepos(".")
MainFind ==
    /\ mpc = "find"
    /\ mrepos' = findGitRepos
    /\ mi' = 1
    /\ mpc' = "process"
    /\ UNCHANGED <<fsVars, orchVars, workerVars, mtree, mremotes, mcycle,
                   medits>>

\* What a command does when its outcome is given: TRUE and FALSE when the
\* command is run, TRUE alone when it is not.
Outcomes(run) == IF run THEN BOOLEAN ELSE {TRUE}

Range(f) == {f[i] : i \in 1..Len(f)}

\* a function that returns without its deferred call
deferredChdirSkipped(oldDir, here) == here

\* defer os.Chdir(oldDir) of processRepo and pullUpdates, run in directory
\* here: the working directory after it (os.Chdir fails when oldDir is gone)
deferredChdir(oldDir, here) == IF oldDir \in dirs THEN oldDir ELSE here

NoSync(t) == [ok |-> TRUE, updateRun |-> FALSE, tree |-> t]
NoPush    == [attempts |-> NoAttempts, failed |-> {}, reported |-> {},
              noBranch |-> FALSE]

\* processRepo, lines 109-118: add, commit, pushToAllRemotes.  t2 is the tree
\* after the add, push the fan-out of line 118.
commitAndPush(repoPath, oldDir, here, mono, sync, changed, addOk, commitOk, t2, push) ==
    LET cOk == changed /\ commitOk /\ InWorkTree(here) /\ t2[RepoOf(here)] = "staged"
    IN  /\ mtree' = IF cOk THEN [t2 EXCEPT ![RepoOf(here)] = "clean"] ELSE t2
        /\ cwd' = deferredChdir(oldDir, here)
        /\ mcycle' = [NoMainCycle EXCEPT
                        !.kind = "commit", !.repo = repoPath,
                        !.abs = oldDir \o repoPath, !.mono = mono,
                        !.syncCalled = mono, !.updateRun = sync.updateRun,
                        !.syncOk = sync.ok,
                        !.checked = ~(mono /\ SkipsRepo(sync.ok)),
                        !.changed = changed, !.addOk = changed /\ addOk,
                        !.commitRun = changed, !.commitOk = cOk,
                        !.pushRun = changed, !.attempts = push.attempts,
                        !.failed = push.failed, !.reported = push.reported,
                        !.noBranch = push.noBranch,
                        !.before = oldDir,
                        !.after = deferredChdir(oldDir, here)]

\* processRepo, lines 97-118, changed being the result of hasChanges()
afterCheck(repoPath, oldDir, here, mono, sync, changed) ==
    \E addOk, commitOk, remotesOk \in Outcomes(changed),
       ok \in [Range(mremotes) -> Outcomes(changed)] :
     \E branch \in BranchLookups(changed /\ getRemotes(remotesOk) # <<>>) :
      commitAndPush(repoPath, oldDir, here, mono, sync, changed, addOk, commitOk,
                    IF changed THEN mainAdd(sync.tree, here, addOk) ELSE sync.tree,
                    IF changed THEN pushToAllRemotes(remotesOk, branch, ok) ELSE NoPush)

\* processRepo, lines 89-99, sync being the outcome of syncSubmodules
afterSync(repoPath, oldDir, here, mono, sync, statusOk) ==
    afterCheck(repoPath, oldDir, here, mono, sync,
               ~(mono /\ SkipsRepo(sync.ok)) /\ hasChanges(sync.tree, here, statusOk))

\* processRepo(repoPath) with working directory here after os.Chdir(repoPath)
processRepo(repoPath, oldDir, here, mono) ==
    \E updateOk, bumped \in Outcomes(mono), statusOk \in BOOLEAN :
      afterSync(repoPath, oldDir, here, mono,
                IF mono THEN syncSubmodules(here, repoPath, mtree, updateOk, bumped)
                        ELSE NoSync(mtree),
                statusOk)

\* main, lines 37-39: processRepo(repo) for the next repo
ProcessRepo ==
    /\ mpc = "process"
    /\ mi <= Len(mrepos)
    /\ processRepo(mrepos[mi], cwd, ChdirTarget(mrepos[mi]),
                   isMonorepo(ChdirTarget(mrepos[mi]), mrepos[mi]))
    /\ mi' = mi + 1
    /\ UNCHANGED <<dirs, gitDirs, modDirs, created, unreadable, listFails, orchVars, workerVars, mpc, mrepos,
                   mremotes, medits>>

\* main, lines 42-50: the loop over repos is done; pull when a minute has
\* passed since lastPull, then sleep
EndProcess ==
    /\ mpc = "process"
    /\ mi > Len(mrepos)
    /\ \E minutePassed \in BOOLEAN : mpc' = IF minutePassed THEN "pull" ELSE "sleep"
    /\ mi' = 1
    /\ UNCHANGED <<fsVars, orchVars, workerVars, mrepos, mtree, mremotes, mcycle, medits>>

\* main, lines 44-46: pullUpdates(repo) for the next repo; ah: the remotes
\* for which hasRemoteChanges(remote, branch) is true (none when branch is
\* empty: git rev-parse remote/ fails)
PullUpdates ==
    /\ mpc = "pull"
    /\ mi <= Len(mrepos)
    /\ \E remotesOk \in BOOLEAN,
          ah \in SUBSET Range(mremotes), ok \in [Range(mremotes) -> BOOLEAN] :
        \E branch \in BranchLookups(getRemotes(remotesOk) # <<>>) :
         LET repoPath == mrepos[mi]
             oldDir   == cwd
             res      == pullFromRemotes(remotesOk, branch, ah, ok)
         IN  /\ getCurrentBranch(branch) = "" => ah = {}
             /\ cwd' = deferredChdir(oldDir, ChdirTarget(repoPath))
             /\ mcycle' = [NoMainCycle EXCEPT
                             !.kind = "pull", !.repo = repoPath,
                             !.abs = oldDir \o repoPath, !.fetched = res.fetched,
                             !.pulls = res.pulls, !.pulled = res.pulled,
                             !.noBranch = res.noBranch,
                             !.before = oldDir,
                             !.after = deferredChdir(oldDir, ChdirTarget(repoPath))]
    /\ mi' = mi + 1
    /\ UNCHANGED <<dirs, gitDirs, modDirs, created, unreadable, listFails, orchVars, workerVars, mpc, mrepos, mtree,
                   mremotes, medits>>

\* main, line 47: lastPull = time.Now()
EndPull ==
    /\ mpc = "pull"
    /\ mi > Len(mrepos)
    /\ mpc' = "sleep"
    /\ UNCHANGED <<fsVars, orchVars, workerVars, mrepos, mi, mtree, mremotes,
                   mcycle, medits>>

\* main, line 50: time.Sleep, then the next iteration
MainSleep ==
    /\ mpc = "sleep"
    /\ mpc' = "process"
    /\ mi' = 1
    /\ UNCHANGED <<fsVars, orchVars, workerVars, mrepos, mtree, mremotes, mcycle,
                   medits>>

\* A file of the repository in directory d is created or modified.
MainEdit(d) ==
    /\ d \in gitDirs
    /\ medits < MaxEdits
    /\ medits' = medits + 1
    /\ mtree' = [mtree EXCEPT ![d] = IF @ = "clean" THEN "dirty" ELSE @]
    /\ UNCHANGED <<fsVars, orchVars, workerVars, mpc, mrepos, mi, mremotes, mcycle>>

\* A user deletes a repository while the program sleeps between two rounds
\* of its loop: a directory without subdirectories, in which the process is
\* not.
MainRemove(d) ==
    /\ d \in gitDirs
    /\ \A e \in dirs : IsPrefix(d, e) => e = d
    /\ ~IsPrefix(d, cwd)
    /\ Cardinality(dirs) > Cardinality(MainDirs) - MaxRemovals
    /\ mpc = "sleep"
    /\ dirs' = dirs \ {d}
    /\ gitDirs' = gitDirs \ {d}
    /\ modDirs' = modDirs \ {d}
    /\ UNCHANGED <<created, unreadable, listFails, cwd, orchVars, workerVars,
                   mainVars>>

MainParked ==
    /\ mpc = "off"
    /\ mrepos = <<>>
    /\ mi = 1
    /\ mtree = [d \in AllDirs |-> "clean"]
    /\ mremotes = <<>>
    /\ mcycle = NoMainCycle
    /\ medits = 0

OrchParked ==
    /\ opc = "off"
    /\ repositories = <<>>
    /\ idx = 1
    /\ services = {}
    /\ started = [k \in Keys |-> 0]
    /\ wk = [k \in Keys |-> NoWorker]
    /\ scans = 0
    /\ mapAccess = {}

WorkerParked ==
    /\ cfg = [AutoCommit |-> FALSE, AutoPush |-> FALSE, AutoPull |-> FALSE]
    /\ tpc = [t \in Threads |-> "none"]
    /\ events = <<>>
    /\ spawned = 0
    /\ tree = CleanTree
    /\ remotes = {}
    /\ ahead = {}
    /\ pushFailed = {}
    /\ obs = NoThread
    /\ cyc = NoCycle
    /\ edits = 0

WorkerInit ==
    /\ dirs = {Root}
    /\ gitDirs = {Root}
    /\ modDirs = {}
    /\ created = {}
    /\ unreadable = {}
    /\ listFails = {}
    /\ cwd = Root
    /\ OrchParked
    /\ ctxDone = FALSE
    /\ cfg \in [AutoCommit : BOOLEAN, AutoPush : BOOLEAN, AutoPull : BOOLEAN]
    /\ tpc = [t \in Threads |-> IF t = 0 THEN "select" ELSE "none"]
    /\ events = <<>>
    /\ spawned = 0
    /\ tree \in {CleanTree, FreshTree}
    /\ remotes \in SUBSET RemoteNames
    /\ ahead \in SUBSET remotes
    /\ pushFailed = {}
    /\ obs = NoThread
    /\ cyc = NoCycle
    /\ edits = 0
    /\ MainParked

WorkerNext ==
    \/ WatchTick
    \/ HandleFileEvent
    \/ \E t \in Threads : TriggerFire(t)
    \/ \E t \in Threads : StepAddAll(t)
    \/ \E t \in Threads : StepCommit(t)
    \/ \E t \in Threads : StepPush(t)
    \/ PullTick
    \/ \E t \in Threads : StepPull(t)
    \/ \E t \in Threads : Return(t)
    \/ ServiceStop
    \/ ServiceCancel
    \/ \E kind \in {"create", "modify"}, d \in dirs, notify, excluded \in BOOLEAN :
         FileEdit(kind, d, notify, excluded)

WorkerSpec == WorkerInit /\ [][WorkerNext]_vars

\* One GitAirService in a repository with a subdirectory a, which may be a
\* repository of its own, and a directory build
WatchInit ==
    /\ dirs = WatchTree
    /\ gitDirs \in {{Root}, {Root, <<"a">>}}
    /\ modDirs = {}
    /\ created = {}
    /\ unreadable = {}
    /\ listFails = {}
    /\ cwd = Root
    /\ OrchParked
    /\ ctxDone = FALSE
    /\ cfg \in [AutoCommit : BOOLEAN, AutoPush : {TRUE}, AutoPull : {TRUE}]
    /\ tpc = [t \in Threads |-> IF t = 0 THEN "select" ELSE "none"]
    /\ events = <<>>
    /\ spawned = 0
    /\ tree = CleanTree
    /\ remotes = {"origin"}
    /\ ahead \in SUBSET remotes
    /\ pushFailed = {}
    /\ obs = NoThread
    /\ cyc = NoCycle
    /\ edits = 0
    /\ MainParked

WatchSpec == WatchInit /\ [][WorkerNext]_vars

Init ==
    /\ dirs = OrchDirs
    /\ gitDirs \in SUBSET OrchDirs
    /\ modDirs = {}
    /\ created = {}
    /\ unreadable = {}
    /\ listFails = {}
    /\ cwd = Root
    /\ opc = "discover"
    /\ repositories = <<>>
    /\ idx = 1
    /\ services = {}
    /\ started = [k \in Keys |-> 0]
    /\ wk = [k \in Keys |-> NoWorker]
    /\ ctxDone = FALSE
    /\ scans = 0
    /\ mapAccess = {}
    /\ WorkerParked
    /\ MainParked

Next ==
    \/ InitialScan
    \/ StartRepositoryService
    \/ ScanTick
    \/ RescanLookup
    \/ RescanStart
    \/ StopAllServices
    \/ Cancel
    \/ \E k \in Keys : WorkerGetDir(k)
    \/ \E k \in Keys : WorkerChdir(k)
    \/ \E k \in Keys : WorkerStart(k)
    \/ \E k \in Keys : WorkerGitCommand(k)
    \/ \E k \in Keys : WorkerStop(k)
    \/ \E k \in Keys : WorkerRestore(k)
    \/ \E d \in AllDirs : CreateRepository(d)
    \/ \E d \in AllDirs : RemoteListingBreaks(d)

Spec == Init /\ [][Next]_vars

MainInit ==
    /\ dirs = MainDirs
    /\ gitDirs \in SUBSET MainDirs
    /\ modDirs \in SUBSET gitDirs
    /\ created = {}
    /\ unreadable = {}
    /\ listFails = {}
    /\ cwd = Root
    /\ OrchParked
    /\ ctxDone = FALSE
    /\ WorkerParked
    /\ mpc = "find"
    /\ mrepos = <<>>
    /\ mi = 1
    /\ mtree = [d \in AllDirs |-> "clean"]
    /\ mremotes \in {<<>>, <<"origin">>, <<"backup", "origin">>}
    /\ mcycle = NoMainCycle
    /\ medits = 0

\* The orchestrator's startup over a tree with excluded names, unreadable
\* directories and failing remote listings; no worker goroutine is scheduled.
ScanInit ==
    /\ dirs = ScanTree
    /\ gitDirs \in SUBSET ScanTree
    /\ modDirs = {}
    /\ created = {}
    /\ unreadable \in SUBSET ScanTree
    /\ listFails \in SUBSET gitDirs
    /\ cwd = Root
    /\ opc = "discover"
    /\ repositories = <<>>
    /\ idx = 1
    /\ services = {}
    /\ started = [k \in ScanTree |-> 0]
    /\ wk = [k \in ScanTree |-> NoWorker]
    /\ ctxDone = FALSE
    /\ scans = 0
    /\ mapAccess = {}
    /\ WorkerParked
    /\ MainParked

\* The orchestrator started in the subdirectory StartDir of a tree in which
\* repositories are created and deleted while it runs.
RegistryInit ==
    /\ dirs = RegistryDirs
    /\ gitDirs \in SUBSET RegistryDirs
    /\ modDirs = {}
    /\ created = {}
    /\ unreadable = {}
    /\ listFails = {}
    /\ cwd = StartDir
    /\ opc = "discover"
    /\ repositories = <<>>
    /\ idx = 1
    /\ services = {}
    /\ started = [k \in Keys |-> 0]
    /\ wk = [k \in Keys |-> NoWorker]
    /\ ctxDone = FALSE
    /\ scans = 0
    /\ mapAccess = {}
    /\ WorkerParked
    /\ MainParked

RegistryNext ==
    \/ Next
    \/ StatusCall
    \/ \E d \in RegistryDirs : RemoveRepository(d)

RegistrySpec == RegistryInit /\ [][RegistryNext]_vars

ScanNext ==
    \/ InitialScan
    \/ StartRepositoryService

ScanSpec == ScanInit /\ [][ScanNext]_vars

MainNext ==
    \/ MainFind
    \/ ProcessRepo
    \/ EndProcess
    \/ PullUpdates
    \/ EndPull
    \/ MainSleep
    \/ \E d \in AllDirs : MainEdit(d)
    \/ \E d \in MainDirs : MainRemove(d)

MainSpec == MainInit /\ [][MainNext]_vars

C2_OneSequenceAtATime ==
    Cardinality({t \in Threads : InSequence(t)}) <= 1

\* C3: every version-control command issued on behalf of repository R runs
\* in R's own working tree: a running worker's git command is never run in
\* another directory than the one its repository is in.
C3_CommandsInOwnTree ==
    \A k \in Keys : wk[k].cmdDir \in {NoDir, wk[k].abs}

\* C4: a burst of file events within one debounce window yields one
\* commit-cycle invocation: at most one trigger is pending at any time.
C4_OneTriggerPending ==
    Cardinality(Sleeping) <= 1

\* C5: if syncSubmodules fails in a commit cycle, no commit and no push is
\* issued for that repository in that cycle.
C5_NoCommitAfterFailedSync ==
    (mcycle.kind = "commit" /\ mcycle.syncCalled /\ ~mcycle.syncOk)
    => /\ ~mcycle.commitRun
       /\ ~mcycle.pushRun
       /\ \A r \in RemoteNames : mcycle.attempts[r] = 0

\* C5 witness: a cycle of processRepo in which syncSubmodules ran the
\* submodule update and returned false.
C5_Witness ==
    /\ mcycle.kind = "commit"
    /\ mcycle.syncCalled
    /\ mcycle.updateRun
    /\ ~mcycle.syncOk

\* C6: in every commit cycle of a repository that has a submodule manifest,
\* whatever its path, the submodule update is run before the change check.
C6_SubmoduleUpdateFirst ==
    (mcycle.kind = "commit" /\ mcycle.abs \in modDirs) => mcycle.updateRun

\* C7: a push is issued in a commit cycle only after the add and the commit
\* of the same cycle have both succeeded.
C7_PushOnlyAfterCommit ==
    (mcycle.kind = "commit" /\ \E r \in RemoteNames : mcycle.attempts[r] > 0)
    => mcycle.addOk /\ mcycle.commitOk

\* C8: in a push fan-out the failures of all remotes whose push failed are
\* reported, each naming its remote.
C8_FailuresReported ==
    (mcycle.kind = "commit" /\ mcycle.pushRun) => mcycle.reported = mcycle.failed

\* C9: with origin as the only remote, after a failed push the push is
\* attempted again on the next commit cycle, even without a new local change.
C9_PushRetriedNextCycle ==
    (/\ obs # NoThread
     /\ tpc[obs] = "finished"
     /\ cyc.kind = "commit"
     /\ cyc.retryDue
     /\ cfg.AutoPush
     /\ remotes = {"origin"})
    => cyc.attempts["origin"] >= 1

\* C10: with zero remotes and one new file, and no command failing, the
\* change is detected, staged and committed, and no error is reported.
C10_NewFileNoRemotes ==
    (/\ obs # NoThread
     /\ tpc[obs] = "finished"
     /\ cyc.kind = "commit"
     /\ remotes = {}
     /\ cyc.newFileOnly
     /\ ~cyc.cmdFailed)
    => cyc.detected /\ cyc.committed /\ cyc.errors = 0

\* C11: in one pull cycle at most one pull succeeds: after the first
\* successful pull no further remote is pulled in that cycle.
C11_AtMostOnePullSucceeds ==
    mcycle.kind = "pull" => Cardinality(mcycle.pulled) <= 1

\* C12: a pull cycle pulls only from a remote whose head differs from the
\* local one: with remotes backup and origin of which exactly one has new
\* commits, exactly one pull is attempted and it is against that remote.
C12_PullsTheRemoteAhead ==
    (/\ obs # NoThread
     /\ tpc[obs] = "finished"
     /\ cyc.kind = "pull"
     /\ remotes = {"backup", "origin"}
     /\ Cardinality(cyc.aheadAt) = 1
     /\ ~cyc.cmdFailed)
    => \A r \in remotes : cyc.attempts[r] = IF r \in cyc.aheadAt THEN 1 ELSE 0

\* C13: when stopAllServices has returned, every worker that was running has
\* stopped: no worker goroutine is still executing.
C13_AllStoppedAfterShutdown ==
    opc = "stopped" => \A k \in Keys : wk[k].pc \in {"none", "exited"}

\* C14: after cancellation a worker exits only once its in-flight sequences
\* have run to their end: when Start has returned, no commit, push or pull
\* sequence of the worker is still in progress.
C14_NoSequenceInFlightAtExit ==
    tpc[0] = "exited" => \A t \in Threads : ~InSequence(t)

\* C15: once Start has taken its ctx.Done case it runs no scan and starts no
\* worker any more.
C15_NothingAfterShutdown ==
    [][opc = "stopped" => /\ opc' = "stopped"
                          /\ scans' = scans
                          /\ repositories' = repositories
                          /\ started' = started
                          /\ services' = services]_vars

\* C15 witness: Start has returned on cancellation while the scan timer
\* could still have fired and a worker is still running.
C15_Witness ==
    /\ opc = "stopped"
    /\ ctxDone
    /\ scans < MaxScans
    /\ \E k \in Keys : wk[k].pc = "running"

\* C16: after the reconcile of the initial scan every discovered repository
\* has a registered, started worker, also when the working directory of the
\* process (the scan root) is not itself a repository.
C16_DiscoveredGetWorkers ==
    (opc = "loop" /\ scans = 1 /\ cwd = Root /\ Root \notin gitDirs)
    => \A i \in 1..Len(repositories) :
         /\ repositories[i].Path \in services
         /\ started[repositories[i].Path] >= 1

\* C17: reconcile is idempotent: a reconcile step over a descriptor for whose
\* path a worker was already started starts no second worker and leaves the
\* registry, hence the count of active workers, as it was.
C17_ReconcileIdempotent ==
    [][(/\ opc \in {"starting", "rescan", "rescanStart"}
        /\ idx <= Len(repositories)
        /\ started[repositories[idx].Path] >= 1)
       => (started' = started /\ services' = services)]_vars

\* C17 witness: a rescan has discovered only registered paths again and is
\* at one of them, whose worker was started once.
C17_Witness ==
    /\ opc = "rescan"
    /\ scans >= 2
    /\ idx <= Len(repositories)
    /\ \A i \in 1..Len(repositories) : repositories[i].Path \in services
    /\ started[repositories[idx].Path] = 1


\* C18: once a rescan has been reconciled, every repository it discovered
\* that was created after the service started has a registered worker (the
\* scan root is not itself a repository, so no worker ever moved the process).
C18_CreatedLaterGetsWorker ==
    (opc = "loop" /\ scans >= 2 /\ ~ctxDone /\ Root \notin gitDirs) =>
        \A i \in 1..Len(repositories) :
            repositories[i].Abs \in created => repositories[i].Path \in services


\* C19: with autoCommit enabled, a commit sequence started by the watch timer
\* while a new file is the local change, and in which no command fails,
\* commits that change.
C19_TimerCommitsLocalChange ==
    (/\ obs = 0
     /\ tpc[0] = "finished"
     /\ cyc.kind = "commit"
     /\ cfg.AutoCommit
     /\ cyc.newFileOnly
     /\ ~cyc.cmdFailed)
    => cyc.committed


\* C20: when a worker's start fails (chdir or Start error, no cancellation)
\* and the worker goroutine returns, the directory in which the git commands
\* of every other running worker execute stays the same.
C20_FailureLeavesOthersAlone ==
    [][\A k \in Keys :
         (/\ wk[k].pc = "restore"
          /\ wk'[k].pc = "exited"
          /\ ~ctxDone
          /\ \E j \in Keys \ {k} : wk[j].pc = "running")
         => Resolve(ServiceRepoPath)' = Resolve(ServiceRepoPath)]_vars


\* C21: a sync sequence is entered only when its toggle is enabled: with
\* AutoCommit off no goroutine is ever at a stage, commit or push step and no
\* commit sequence is recorded; with AutoPull off none is at the pull step
\* and no pull sequence is recorded.
C21_SequencesGated ==
    /\ ~cfg.AutoCommit =>
          /\ \A t \in Threads : tpc[t] \notin {"addAll", "commit", "push"}
          /\ cyc.kind # "commit"
    /\ ~cfg.AutoPull =>
          /\ \A t \in Threads : tpc[t] # "pull"
          /\ cyc.kind # "pull"

\* both toggles off, the tree has local changes, remote work is waiting,
\* every edit was made and every queued event has been handled
C21_Witness ==
    /\ ~cfg.AutoCommit
    /\ ~cfg.AutoPull
    /\ tree.modified
    /\ tree.untracked
    /\ edits = MaxEdits
    /\ events = <<>>
    /\ ahead # {}
    /\ tpc[0] = "select"


\* no descriptor lies at or below a directory with an excluded name
NoneBelowExcluded(reported) ==
    \A i \in 1..Len(reported) :
        \A j \in 1..Len(reported[i].Abs) :
            ~ \E e \in ExcludePaths : GlobMatch(e, reported[i].Abs[j])

\* C22: in every tree, no repository the scanner reports lies at or below a
\* directory whose final path component matches an exclusion pattern.
C22_NothingBelowExcluded == NoneBelowExcluded(ScanForRepositories)

\* the scan has run over a tree with a repository in build, one below it
\* and one elsewhere, and has reported a repository
C22_Witness ==
    /\ opc = "starting"
    /\ scans = 1
    /\ {<<"build">>, <<"build", "a">>, <<"a">>} \subseteq gitDirs
    /\ unreadable = {}
    /\ Len(repositories) >= 1


\* C23: a repository processed by a commit cycle is classified a monorepo
\* exactly when it has a .gitmodules file at its top level or a .git
\* directory strictly below its root.
C23_MonorepoExactly ==
    mcycle.kind = "commit" =>
        (mcycle.mono <=>
            \/ mcycle.abs \in modDirs
            \/ \E g \in gitDirs : IsPrefix(mcycle.abs, g) /\ g # mcycle.abs)


\* C24: a scan over a tree with unreadable directories still reports every
\* repository outside them: every repository that has no unreadable and no
\* excluded directory on its path, and that the activity filter keeps, is
\* among the repositories of the scan.
C24_ReportedDespiteWalkError ==
    (scans = 1 /\ cwd = Root) =>
        \A g \in gitDirs :
            (/\ \A j \in 0..Len(g) : SubSeq(g, 1, j) \notin unreadable
             /\ \A j \in 1..Len(g) : ~ExcludedName(SubSeq(g, 1, j))
             /\ isRepositoryActive(g))
            => \E i \in 1..Len(repositories) : repositories[i].Abs = g


\* C25: over a tree without any repository the scanner returns the empty
\* sequence, and the orchestrator has no repository, registers no service
\* and starts no worker.
C25_NoRootsNoWorkers ==
    gitDirs = {} =>
        /\ ScanForRepositories = <<>>
        /\ repositories = <<>>
        /\ services = {}
        /\ \A k \in DOMAIN started : started[k] = 0 /\ wk[k].pc = "none"

\* the initial scan and a rescan have run and been reconciled over a tree
\* without repositories
C25_Witness ==
    /\ gitDirs = {}
    /\ opc = "loop"
    /\ scans = 2


\* C26: in a cycle whose branch lookup gave no branch (empty output for a
\* detached HEAD, or the command failing), no push and no pull is attempted.
C26_NoBranchNoPushNoPull ==
    mcycle.noBranch =>
        /\ \A r \in RemoteNames : mcycle.attempts[r] = 0
        /\ mcycle.pulls = <<>>


\* C27: in a pull sequence a failed git pull does not end the loop over the
\* remotes: when a pull has failed, either every remote has been tried or a
\* remote tried after it was pulled.
C27_PullGoesOnAfterFailure ==
    (/\ obs # NoThread
     /\ tpc[obs] = "finished"
     /\ cyc.kind = "pull"
     /\ cyc.failed # {})
    => \/ \A r \in remotes : cyc.attempts[r] = 1
       \/ \E r \in remotes : cyc.attempts[r] = 1 /\ r \notin cyc.failed

\* a pull sequence over two remotes has ended: the pull from one failed and
\* the other was pulled
C27_Witness ==
    /\ obs # NoThread
    /\ tpc[obs] = "finished"
    /\ cyc.kind = "pull"
    /\ remotes = RemoteNames
    /\ Cardinality(cyc.failed) = 1
    /\ \A r \in remotes : cyc.attempts[r] = 1
    /\ ahead = {}


\* C28: only a glob match on the final component of a directory on its path
\* excludes a repository: after a scan without walk errors every repository
\* with no such directory on its path is among the repositories the
\* orchestrator reconciles (and so can get a worker).
C28_ExcludedByBaseNameOnly ==
    (scans = 1 /\ cwd = Root /\ unreadable = {}) =>
        \A g \in gitDirs :
            (\A j \in 1..Len(g) : ~ExcludedName(SubSeq(g, 1, j)))
            => \E i \in 1..Len(repositories) : repositories[i].Abs = g


\* C29: a repository whose remote listing fails is still reported, with an
\* empty remote list, and still gets a worker: once the initial scan has been
\* reconciled it is among the repositories and has a registered service
\* (the scan root is not itself a repository, and no directory is unreadable).
C29_ListingFailureKeepsWorker ==
    (opc = "loop" /\ scans = 1 /\ unreadable = {} /\ Root \notin gitDirs) =>
        \A g \in listFails :
            (\A j \in 1..Len(g) : ~ExcludedName(SubSeq(g, 1, j)) /\ isRepositoryActive(g))
            => \E i \in 1..Len(repositories) :
                   /\ repositories[i].Abs = g
                   /\ repositories[i].Remotes = {}
                   /\ repositories[i].Path \in services


\* C30: a reconcile step leaves every registered path untouched: its service
\* stays registered, its worker goroutine is the same and in the same
\* position, and no further goroutine is started for it, whatever remotes
\* the scan reported.
C30_RegisteredUntouched ==
    [][(/\ opc \in {"starting", "rescan", "rescanStart"}
        /\ (idx' # idx \/ opc' # opc))
       => \A k \in services :
              /\ k \in services'
              /\ wk'[k] = wk[k]
              /\ started'[k] = started[k]]_vars

\* a rescan is at a registered repository whose worker is running and whose
\* descriptor, unlike the one it was started from, has no remotes
C30_Witness ==
    /\ opc = "rescan"
    /\ scans = 2
    /\ idx <= Len(repositories)
    /\ repositories[idx].Path \in services
    /\ repositories[idx].Remotes = {}
    /\ repositories[idx].Abs \notin created
    /\ started[repositories[idx].Path] = 1
    /\ wk[repositories[idx].Path].pc = "running"
    /\ wk[repositories[idx].Path].abs = repositories[idx].Abs


\* C31: between startup and shutdown the set of registered paths only grows:
\* every step keeps every registry entry, whatever the scan before it found,
\* except the step of stopAllServices on shutdown, which empties the registry.
C31_RegistryOnlyGrows ==
    [][\/ services \subseteq services'
       \/ (ctxDone /\ opc' = "stopped" /\ services' = {})]_vars

\* a rescan has been reconciled from which a registered repository, deleted
\* since it was discovered, is missing; its registry entry is still there
C31_Witness ==
    /\ opc = "loop"
    /\ scans = 2
    /\ ~ctxDone
    /\ \E k \in services :
          /\ wk[k].abs \notin dirs
          /\ \A i \in 1..Len(repositories) : repositories[i].Path # k


\* C32: the status output reports a repository as active only while the
\* orchestrator runs a worker for it: before shutdown, no repository whose
\* worker goroutine has returned is reported with service_active true.
C32_ActiveMeansRunning ==
    ~ctxDone =>
        \A i \in 1..Len(GetRepositoryStatus.repositories) :
            GetRepositoryStatus.repositories[i].service_active
            => wk[GetRepositoryStatus.repositories[i].path].pc # "exited"


\* C33: every read and every write of the map mrs.services happens with the
\* registry lock held: every access of a step of the service is made under
\* Lock or RLock, and every write under Lock.
C33_MapAccessLocked ==
    \A a \in mapAccess : a[2] # "none" /\ (a[1] = "write" => a[2] = "Lock")


\* C34: a file event is attributed to the repository with the longest path
\* prefix only: when the service handles an event for a file inside a nested
\* repository, it schedules no commit trigger of its own.
C34_NestedEventNotHandled ==
    [][(/\ events # <<>>
        /\ events' = Tail(events)
        /\ RepoOf(Head(events).dir) # RepoOf(cwd))
       => spawned' = spawned]_vars


\* C35: handling a file event whose name, or whose containing directory,
\* matches an exclusion pattern starts no goroutine and so schedules no
\* commit trigger.
C35_ExcludedEventNoTrigger ==
    [][(/\ events # <<>>
        /\ events' = Tail(events)
        /\ (Head(events).excluded \/ ExcludedName(Head(events).dir)))
       => (spawned' = spawned /\ tpc' = tpc)]_vars

\* with AutoCommit on and every edit made, Start is at its select with an
\* event at the head of the queue whose name matches a pattern; no goroutine
\* has been started
C35_Witness ==
    /\ cfg.AutoCommit
    /\ tpc[0] = "select"
    /\ Len(events) = 1
    /\ events[1].excluded
    /\ edits = MaxEdits
    /\ spawned = 0


\* C36: HasChanges returns true whenever the working tree differs from the
\* last commit: with a staged change, a modified tracked file or an untracked
\* file in the tree, HasChanges is true.
C36_EveryChangeDetected ==
    (tree.staged \/ tree.modified \/ tree.untracked) => HasChanges(tree)


\* C37: a rescan scans all configured scan roots: right after the discovery
\* of a rescan made from the start directory (no worker was ever started, so
\* the process never moved), every repository that was there at startup and
\* lies under a configured root is among the repositories.
C37_AllRootsScanned ==
    (/\ opc = "rescan"
     /\ idx = 1
     /\ cwd = StartDir
     /\ \A k \in Keys : started[k] = 0)
    => \A g \in gitDirs \ created :
           (\E p \in ScanPaths : IsPrefix(p, g))
           => \E i \in 1..Len(repositories) : repositories[i].Abs = g


\* C38: no version-control command is issued after the worker has exited:
\* once Start has returned, no goroutine of the service that waits in its
\* debounce sleep or stands before a git command takes that step.
C38_NoCommandAfterExit ==
    [][tpc[0] = "exited" =>
         \A t \in Threads :
             (tpc[t] = "sleep" \/ InSequence(t)) => tpc'[t] = tpc[t]]_vars


\* C39: after any sequence of rescans every registered path appears in the
\* status output's list of repositories, and the active-worker count is at
\* most the total-repository count (stated between reconciles, before
\* shutdown, while no worker goroutine has run yet, so that every scan was
\* made from the start directory).
C39_RegisteredAreListed ==
    (/\ opc = "loop"
     /\ ~ctxDone
     /\ \A k \in Keys : wk[k].pc \in {"none", "spawned"})
    => /\ \A k \in services :
              \E i \in 1..Len(GetRepositoryStatus.repositories) :
                  GetRepositoryStatus.repositories[i].path = k
       /\ GetRepositoryStatus.active_services
              <= GetRepositoryStatus.total_repositories


\* C40: processRepo and pullUpdates leave the process working directory as
\* it was: across every call of either, for every path of the discovered
\* list, the working directory after the call is the one before it.
C40_WorkingDirectoryKept ==
    [][(mi' = mi + 1 \/ mcycle' # mcycle)
       => (cwd' = cwd /\ mcycle'.after = mcycle'.before)]_vars

\* pullUpdates has returned for a repository whose directory was deleted
\* after the search, so that os.Chdir(repoPath) failed
C40_Witness ==
    /\ mcycle.kind = "pull"
    /\ mcycle.abs \notin dirs
    /\ mcycle.repo # <<>>
    /\ cwd = mcycle.before

====
